---- MODULE Spec2Model ----
(***************************************************************************)
(* Model of wagtail/wagtailcore/blocks/struct_block.py: the struct block   *)
(* descriptor (BaseStructBlock) and its value container (StructValue).     *)
(*                                                                         *)
(* An OrderedDict is a sequence of <<key, value>> pairs with distinct keys. *)
(* A plain dict under construction is a function from its keys; the code   *)
(* fixes no iteration order for it (insertion order on some builds, hash    *)
(* order on others), so an operation that hands out a plain dict has every  *)
(* order of its entries as an outcome.  Python's None is NoneVal.           *)
(* Child blocks are objects named by a number; the operations of the child *)
(* block contract (Child...) are those of two small concrete field types.  *)
(***************************************************************************)
EXTENDS Integers, Sequences, FiniteSets, TLC

VARIABLES dicts, desc, block_name, sv, last

vars == <<dicts, desc, block_name, sv, last>>

\* ------------------------------------------------------------------ bounds

\* longest local_blocks argument given to a constructor
MaxLocal == 2

\* longest ErrorList given to render_form
MaxErrors == 2

\* ------------------------------------------------------------ input domains

Names == {"a", "b", "c"}

\* raw (stored / submitted) child values; python-level child values
Raw == {0, 1}

NoneVal == -1

BaseBlocks == {1, 2}

\* the block object given as the i-th pair of a local_blocks argument
LocalBlock(i) == 10 + i

Blocks == BaseBlocks \cup {LocalBlock(i) : i \in 1..MaxLocal}

Descs == {1, 2}

\* reference of the type-level base_blocks dict; descriptor d's own dict is d
BaseRef == 0

Labels == {"", "T"}

Prefixes == {"", "p"}

\* --------------------------------------------------- ordered dict primitives

RECURSIVE SeqsUpTo(_, _)
SeqsUpTo(S, n) ==
    IF n = 0 THEN {<<>>}
    ELSE LET shorter == SeqsUpTo(S, n - 1)
         IN shorter \cup {Append(s, x) : s \in {t \in shorter : Len(t) = n - 1}, x \in S}

od_keys(od) == [i \in 1..Len(od) |-> od[i][1]]

od_keyset(od) == {od[i][1] : i \in 1..Len(od)}

od_values(od) == [i \in 1..Len(od) |-> od[i][2]]

od_has(od, k) == k \in od_keyset(od)

od_index(od, k) == CHOOSE i \in 1..Len(od) : od[i][1] = k

od_getitem(od, k) == od[od_index(od, k)][2]

\* mapping.get(k, dflt)
od_get(od, k, dflt) == IF od_has(od, k) THEN od_getitem(od, k) ELSE dflt

\* faulty mapping[k] = v : an existing key is removed and added again at the end
od_setitem_move_to_end(od, k, v) ==
    Append(SelectSeq(od, LAMBDA p : p[1] # k), <<k, v>>)

\* mapping[k] = v : an existing key keeps its position, a new key goes last
od_setitem(od, k, v) ==
    IF od_has(od, k)
    THEN [od EXCEPT ![od_index(od, k)] = <<k, v>>]
    ELSE Append(od, <<k, v>>)

\* del mapping[k]
od_delitem(od, k) ==
    LET i == od_index(od, k)
    IN SubSeq(od, 1, i - 1) \o SubSeq(od, i + 1, Len(od))

\* OrderedDict(pairs): the pairs inserted one by one
RECURSIVE od_from_pairs(_)
od_from_pairs(pairs) ==
    IF pairs = <<>> THEN <<>>
    ELSE LET front == od_from_pairs(SubSeq(pairs, 1, Len(pairs) - 1))
             p == pairs[Len(pairs)]
         IN od_setitem(front, p[1], p[2])

\* mapping.update(pairs)
od_update(od, pairs) == od_from_pairs(od \o pairs)

\* mapping.move_to_end(k, last)
od_move_to_end(od, k, to_last) ==
    IF to_last
    THEN Append(od_delitem(od, k), <<k, od_getitem(od, k)>>)
    ELSE << <<k, od_getitem(od, k)>> >> \o od_delitem(od, k)

\* mapping.popitem(last): the mapping that is left
od_popitem(od, to_last) ==
    IF to_last THEN SubSeq(od, 1, Len(od) - 1) ELSE Tail(od)

\* mapping.setdefault(k, v)
od_setdefault(od, k, v) == IF od_has(od, k) THEN od ELSE Append(od, <<k, v>>)

\* {} : the empty plain dict
EmptyDict == [k \in {} |-> 0]

\* plain_dict[k] = v
dict_setitem(f, k, v) == [x \in (DOMAIN f) \cup {k} |-> IF x = k THEN v ELSE f[x]]

\* dict(pairs): of two pairs with one key the later one stays
dict_from_pairs(pairs) ==
    [k \in {pairs[i][1] : i \in 1..Len(pairs)} |->
        pairs[CHOOSE i \in 1..Len(pairs) :
                 /\ pairs[i][1] = k
                 /\ \A j \in (i + 1)..Len(pairs) : pairs[j][1] # k][2]]

\* the orders in which a build may iterate the plain dict f
dict_orders(f) ==
    LET n == Cardinality(DOMAIN f)
    IN {[i \in 1..n |-> <<p[i], f[p[i]]>>] :
           p \in {q \in [1..n -> DOMAIN f] : \A i, j \in 1..n : i # j => q[i] # q[j]}}

Range(s) == {s[i] : i \in 1..Len(s)}

IsMapping(s) == \A i, j \in 1..Len(s) : i # j => s[i][1] # s[j][1]

\* every ordered mapping from some of Names to values of S
ValuesOver(S) == {s \in SeqsUpTo(Names \X S, Cardinality(Names)) : IsMapping(s)}

RawValues == ValuesOver(Raw)

\* ------------------------------------------------------- child block contract

\* block.meta.default
MetaDefault(b) == b % 2

\* child to_python: the stored number becomes its python-level form
ChildToPython(b, v) == IF v = NoneVal THEN NoneVal ELSE v + 10

\* child get_prep_value: the python-level form becomes the stored number
ChildGetPrepValue(b, v) == IF v = NoneVal THEN NoneVal ELSE v - 10

PyVals == {ChildToPython(1, r) : r \in Raw}

PyValues == ValuesOver(PyVals)

\* the ValidationError a child raises for value v
ChildError(b, v) == [block |-> b, val |-> v]

\* child clean: a blank (0) or missing value is refused, others are cleaned
ChildClean(b, v) ==
    IF v = 0 \/ v = NoneVal
    THEN [ok |-> FALSE, val |-> NoneVal, err |-> ChildError(b, v)]
    ELSE [ok |-> TRUE, val |-> v + 20, err |-> ChildError(b, v)]

\* child get_searchable_content: a list of fragments (two for even blocks)
ChildSearchable(b, v) ==
    IF b % 2 = 0 THEN << <<b, v>>, <<b, v>> >> ELSE << <<b, v>> >>

\* child value_from_datadict: data.get(prefix)
ChildValueFromDatadict(b, data, prefix) ==
    IF prefix \in DOMAIN data THEN data[prefix] ELSE NoneVal

\* child render_form: the fragment records what it was called with
ChildRenderForm(b, value, prefix, errors) ==
    [block |-> b, value |-> value, prefix |-> prefix, errors |-> errors]

\* child js_initializer: odd blocks have one, even blocks have None
ChildJsInitializer(b) == IF b % 2 = 1 THEN b ELSE NoneVal

\* block.bind(value)
Bind(b, v) == [block |-> b, value |-> v]

\* an optional ErrorList: errors=None, or errors=<an ErrorList>
NoErrors == [some |-> FALSE, list |-> <<>>]

SomeErrors(el) == [some |-> TRUE, list |-> el]

\* ------------------------------------------------- BaseStructBlock.__init__

\* faulty copy: child_blocks is the base_blocks dict itself
dict_alias(h, src, new) == [heap |-> h, ref |-> src]

\* base_blocks.copy(): a new dict object new, holding the pairs of src
dict_copy(h, src, new) == [heap |-> [h EXCEPT ![new] = h[src]], ref |-> new]

\* for name, block in local_blocks: block.set_name(name); child_blocks[name] = block
RECURSIVE supplement(_, _, _)
supplement(st, ref, local_blocks) ==
    IF local_blocks = <<>> THEN st
    ELSE LET name == Head(local_blocks)[1]
             block == Head(local_blocks)[2]
             next == [heap |-> [st.heap EXCEPT ![ref] = od_setitem(st.heap[ref], name, block)],
                      names |-> [st.names EXCEPT ![block] = name]]
         IN supplement(next, ref, Tail(local_blocks))

\* child_js_initializers: the children whose js_initializer() is not None,
\* in a plain dict
js_initializers(child_blocks) ==
    dict_orders(
        [name \in {child_blocks[i][1] : i \in {j \in 1..Len(child_blocks) :
                                                  ChildJsInitializer(child_blocks[j][2]) # NoneVal}}
            |-> ChildJsInitializer(od_getitem(child_blocks, name))])

\* the heap, the block names and the new descriptor after __init__, for each
\* order of the plain dict child_js_initializers
StructBlock_init(h, names, d, local_blocks, label) ==
    LET cp == dict_copy(h, BaseRef, d)
        st == supplement([heap |-> cp.heap, names |-> names], cp.ref, local_blocks)
        child_blocks == st.heap[cp.ref]
    IN {[heap |-> st.heap,
         names |-> st.names,
         self |-> [constructed |-> TRUE,
                   constructor_kwargs |-> [label |-> label],
                   label |-> label,
                   child_blocks |-> cp.ref,
                   child_js_initializers |-> js,
                   dependencies |-> od_values(child_blocks)]] :
           js \in js_initializers(child_blocks)}

\* the local_blocks arguments: up to MaxLocal pairs, the i-th with LocalBlock(i)
LocalLists ==
    {[i \in 1..Len(ns) |-> <<ns[i], LocalBlock(i)>>] : ns \in SeqsUpTo(Names, MaxLocal)}

\* js_initializer(): None when no child has one
js_initializer(self) ==
    IF self.child_js_initializers = <<>>
    THEN [none |-> TRUE, of |-> <<>>]
    ELSE [none |-> FALSE, of |-> self.child_js_initializers]

\* ---------------------------------------------- BaseStructBlock operations
\* self is [child_blocks |-> <the ordered dict>, label, constructor_kwargs]

\* the payload of the single aggregated error: errors.as_data()[0].params
error_dict_of(errors) == IF errors # <<>> THEN errors[1].params ELSE <<>>

\* faulty distribution: every child is given the first entry of the payload
child_renderings_first_entry(self, value, prefix, error_dict) ==
    [i \in 1..Len(self.child_blocks) |->
        LET name == self.child_blocks[i][1]
            block == self.child_blocks[i][2]
        IN ChildRenderForm(block,
               od_get(value, name, MetaDefault(block)),
               prefix \o "-" \o name,
               IF error_dict # <<>> THEN SomeErrors(error_dict[1][2]) ELSE NoErrors)]

\* one child render_form call per child block, in child_blocks order
child_renderings(self, value, prefix, error_dict) ==
    [i \in 1..Len(self.child_blocks) |->
        LET name == self.child_blocks[i][1]
            block == self.child_blocks[i][2]
        IN ChildRenderForm(block,
               od_get(value, name, MetaDefault(block)),
               prefix \o "-" \o name,
               IF od_has(error_dict, name)
               THEN SomeErrors(od_getitem(error_dict, name))
               ELSE NoErrors)]

\* faulty check: the children are rendered before the errors are counted
render_form_late_check(self, value, prefix, errors) ==
    LET error_dict == IF errors # <<>> THEN errors[1].params ELSE <<>>
        renderings ==
            [i \in 1..Len(self.child_blocks) |->
                ChildRenderForm(self.child_blocks[i][2],
                    od_get(value, self.child_blocks[i][1], MetaDefault(self.child_blocks[i][2])),
                    prefix \o "-" \o self.child_blocks[i][1],
                    IF od_has(error_dict, self.child_blocks[i][1])
                    THEN SomeErrors(od_getitem(error_dict, self.child_blocks[i][1]))
                    ELSE NoErrors)]
    IN IF Len(errors) > 1
       THEN [exc |-> "TypeError", ret |-> <<>>, calls |-> renderings]
       ELSE [exc |-> "none",
             ret |-> << [label |-> self.label, has_label |-> self.label # "",
                         list_items |-> renderings] >>,
             calls |-> renderings]

\* render_form: the exception raised, the markup returned, the child calls made
render_form(self, value, prefix, errors) ==
    IF errors # <<>> /\ Len(errors) > 1
    THEN [exc |-> "TypeError", ret |-> <<>>, calls |-> <<>>]
    ELSE LET renderings == child_renderings(self, value, prefix, error_dict_of(errors))
         IN [exc |-> "none",
             ret |-> << [label |-> self.label, has_label |-> self.label # "",
                         list_items |-> renderings] >>,
             calls |-> renderings]

\* value_from_datadict: the items of the StructValue returned
value_from_datadict(self, data, prefix) ==
    LET cb == self.child_blocks
    IN [i \in 1..Len(cb) |->
           <<cb[i][1], ChildValueFromDatadict(cb[i][2], data, prefix \o "-" \o cb[i][1])>>]

\* faulty loop: it stops at the first child that fails
RECURSIVE clean_loop_stop(_, _, _, _)
clean_loop_stop(self, value, i, acc) ==
    IF i > Len(value) THEN acc
    ELSE LET name == value[i][1]
             val == value[i][2]
         IN IF ~ od_has(self.child_blocks, name)
            THEN [acc EXCEPT !.exc = "KeyError"]
            ELSE LET r == ChildClean(od_getitem(self.child_blocks, name), val)
                     att == Append(acc.attempted, name)
                 IN IF r.ok
                    THEN clean_loop_stop(self, value, i + 1,
                             [acc EXCEPT !.attempted = att,
                                         !.result = dict_setitem(acc.result, name, r.val)])
                    ELSE [acc EXCEPT !.attempted = att,
                                     !.errors = dict_setitem(acc.errors, name, <<r.err>>)]

\* the loop of clean from the i-th item of value on
RECURSIVE clean_loop(_, _, _, _)
clean_loop(self, value, i, acc) ==
    IF i > Len(value) THEN acc
    ELSE LET name == value[i][1]
             val == value[i][2]
         IN IF ~ od_has(self.child_blocks, name)
            THEN [acc EXCEPT !.exc = "KeyError"]
            ELSE LET r == ChildClean(od_getitem(self.child_blocks, name), val)
                     att == Append(acc.attempted, name)
                 IN IF r.ok
                    THEN clean_loop(self, value, i + 1,
                             [acc EXCEPT !.attempted = att,
                                         !.result = dict_setitem(acc.result, name, r.val)])
                    ELSE clean_loop(self, value, i + 1,
                             [acc EXCEPT !.attempted = att,
                                         !.errors = dict_setitem(acc.errors, name, <<r.err>>)])

\* clean: the exception raised (with its params), the mapping returned, and
\* the names whose child clean was called, in call order; one outcome for each
\* order of the plain dict handed out
clean(self, value) ==
    LET acc == clean_loop(self, value, 1,
                   [exc |-> "none", attempted |-> <<>>, result |-> EmptyDict,
                    errors |-> EmptyDict])
    IN IF acc.exc = "KeyError"
       THEN {[exc |-> "KeyError", params |-> <<>>, ret |-> <<>>,
              attempted |-> acc.attempted]}
       ELSE IF DOMAIN acc.errors # {}
       THEN {[exc |-> "ValidationError", params |-> params, ret |-> <<>>,
              attempted |-> acc.attempted] : params \in dict_orders(acc.errors)}
       ELSE {[exc |-> "none", params |-> <<>>, ret |-> ret,
              attempted |-> acc.attempted] : ret \in dict_orders(acc.result)}

\* faulty to_python: a field absent from the input is given None, not its default
to_python_none_default(self, value) ==
    [i \in 1..Len(self.child_blocks) |->
        <<self.child_blocks[i][1],
          ChildToPython(self.child_blocks[i][2],
                        od_get(value, self.child_blocks[i][1], NoneVal))>>]

\* to_python: the items of the StructValue returned
to_python(self, value) ==
    LET cb == self.child_blocks
    IN [i \in 1..Len(cb) |->
           <<cb[i][1],
             ChildToPython(cb[i][2], od_get(value, cb[i][1], MetaDefault(cb[i][2])))>>]

\* faulty get_prep_value: entries whose stored form is blank (0) are left out
get_prep_value_skip_blank(self, value) ==
    IF \E i \in 1..Len(value) : ~ od_has(self.child_blocks, value[i][1])
    THEN {[exc |-> "KeyError", ret |-> <<>>]}
    ELSE {[exc |-> "none", ret |-> ret] :
             ret \in dict_orders(dict_from_pairs(SelectSeq(
                      [i \in 1..Len(value) |->
                          <<value[i][1],
                            ChildGetPrepValue(od_getitem(self.child_blocks, value[i][1]),
                                              value[i][2])>>],
                      LAMBDA p : p[2] # 0)))}

\* get_prep_value: the plain dict returned, one outcome for each order of it;
\* KeyError for a key of value that is no child block
get_prep_value(self, value) ==
    IF \E i \in 1..Len(value) : ~ od_has(self.child_blocks, value[i][1])
    THEN {[exc |-> "KeyError", ret |-> <<>>]}
    ELSE {[exc |-> "none", ret |-> ret] :
             ret \in dict_orders(dict_from_pairs(
                      [i \in 1..Len(value) |->
                          <<value[i][1],
                            ChildGetPrepValue(od_getitem(self.child_blocks, value[i][1]),
                                              value[i][2])>>]))}

\* get_searchable_content: the fragments of the first n children, extended in turn
RECURSIVE searchable_loop(_, _, _)
searchable_loop(self, value, n) ==
    IF n = 0 THEN <<>>
    ELSE LET name == self.child_blocks[n][1]
             block == self.child_blocks[n][2]
         IN searchable_loop(self, value, n - 1)
                \o ChildSearchable(block, od_get(value, name, MetaDefault(block)))

get_searchable_content(self, value) ==
    searchable_loop(self, value, Len(self.child_blocks))

\* deconstruct: (path, args, kwargs)
deconstruct(self) ==
    [path |-> "wagtail.wagtailcore.blocks.StructBlock",
     args |-> <<self.child_blocks>>,
     kwargs |-> self.constructor_kwargs]

\* ----------------------------------------------------------- StructValue

\* StructValue(block, items): a new instance, nothing cached on it
StructValue_init(d, items) ==
    [block |-> d, items |-> od_from_pairs(items), cached |-> FALSE, cache |-> <<>>,
     computes |-> 0]

\* the body of bound_blocks: one pass over the descriptor's child blocks
bound_blocks(inst, child_blocks) ==
    [i \in 1..Len(child_blocks) |->
        <<child_blocks[i][1],
          Bind(child_blocks[i][2], od_get(inst.items, child_blocks[i][1], NoneVal))>>]

\* faulty property: a plain @property, whose body runs at every access
plain_property_get(inst, child_blocks) ==
    LET res == bound_blocks(inst, child_blocks)
    IN [inst |-> [inst EXCEPT !.cached = TRUE, !.cache = res,
                              !.computes = inst.computes + 1],
        ret |-> res]

\* @cached_property: the first access runs the body and stores the result on
\* the instance, later accesses read what is stored
cached_property_get(inst, child_blocks) ==
    IF inst.cached
    THEN [inst |-> inst, ret |-> inst.cache]
    ELSE LET res == bound_blocks(inst, child_blocks)
         IN [inst |-> [inst EXCEPT !.cached = TRUE, !.cache = res,
                                   !.computes = inst.computes + 1],
             ret |-> res]

\* ------------------------------------------------------------------ inputs

\* the ValidationError of a child, as found in an error payload for name n
InputError(n) ==
    ChildError(IF n = "a" THEN 1 ELSE IF n = "b" THEN 2 ELSE LocalBlock(1), 0)

\* the params payload with an entry for each name of ns
ErrParams(ns) == [i \in 1..Len(ns) |-> <<ns[i], <<InputError(ns[i])>>>>]

\* ValidationError('Validation error in StructBlock', params=errors)
AggregatedError(params) ==
    [message |-> "Validation error in StructBlock", params |-> params]

ErrorObjs ==
    {AggregatedError(ErrParams(ns)) : ns \in {<<"a">>, <<"c", "b">>, <<"a", "b">>}}

ErrorLists == SeqsUpTo(ErrorObjs, MaxErrors)

\* submitted data: some of the keys "<prefix>-<name>", each with a raw value
DataKeys == {p \o "-" \o n : p \in Prefixes, n \in {"a", "c"}}

DataDicts == UNION {[K -> Raw] : K \in SUBSET DataKeys}

\* -------------------------------------------------------------------- state

Self(d) ==
    [child_blocks |-> dicts[desc[d].child_blocks],
     label |-> desc[d].label,
     constructor_kwargs |-> desc[d].constructor_kwargs,
     child_js_initializers |-> desc[d].child_js_initializers]

Unconstructed(d) ==
    [constructed |-> FALSE, constructor_kwargs |-> [label |-> ""], label |-> "",
     child_blocks |-> d, child_js_initializers |-> <<>>, dependencies |-> <<>>]

NoInstance == [block |-> 0, items |-> <<>>, cached |-> FALSE, cache |-> <<>>, computes |-> 0]

\* the fields a StructBlock subclass declares (none for StructBlock itself)
BaseChoices == {<<>>, << <<"a", 1>>, <<"b", 2>> >>}

Init ==
    /\ \E base \in BaseChoices :
          /\ dicts = [r \in {BaseRef} \cup Descs |-> IF r = BaseRef THEN base ELSE <<>>]
          /\ block_name = [b \in Blocks |->
                              IF \E i \in 1..Len(base) : base[i][2] = b
                              THEN od_keys(base)[CHOOSE i \in 1..Len(base) : base[i][2] = b]
                              ELSE ""]
    /\ desc = [d \in Descs |-> Unconstructed(d)]
    /\ sv = NoInstance
    /\ last = [op |-> "class", d |-> 0, args |-> <<>>, out |-> <<>>]

\* ------------------------------------------------------------------ actions

\* no call is pending: the caller has taken the result of the previous one
Ready == last.op \in {"class", "init", "idle"}

Construct(d, local_blocks, label) ==
    /\ Ready
    /\ ~ desc[d].constructed
    /\ \E r \in StructBlock_init(dicts, block_name, d, local_blocks, label) :
          /\ dicts' = r.heap
          /\ block_name' = r.names
          /\ desc' = [desc EXCEPT ![d] = r.self]
    /\ last' = [op |-> "init", d |-> d, args |-> local_blocks, out |-> <<>>]
    /\ UNCHANGED sv

Call(op, d, args, out) ==
    /\ Ready
    /\ desc[d].constructed
    /\ last' = [op |-> op, d |-> d, args |-> args, out |-> out]
    /\ UNCHANGED <<dicts, desc, block_name, sv>>

RenderForm(d, value, prefix, errors) ==
    Call("render_form", d, [value |-> value, prefix |-> prefix, errors |-> errors],
         render_form(Self(d), value, prefix, errors))

ValueFromDatadict(d, data, prefix) ==
    Call("value_from_datadict", d, [data |-> data, prefix |-> prefix],
         value_from_datadict(Self(d), data, prefix))

Clean(d, value) == \E out \in clean(Self(d), value) : Call("clean", d, value, out)

ToPython(d, value) == Call("to_python", d, value, to_python(Self(d), value))

GetPrepValue(d, value) ==
    \E out \in get_prep_value(Self(d), value) : Call("get_prep_value", d, value, out)

GetSearchableContent(d, value) ==
    Call("get_searchable_content", d, value, get_searchable_content(Self(d), value))

Deconstruct(d) == Call("deconstruct", d, <<>>, deconstruct(Self(d)))

JsInitializer(d) == Call("js_initializer", d, <<>>, js_initializer(Self(d)))

NewStructValue(d, items) ==
    /\ Ready
    /\ desc[d].constructed
    /\ sv' = StructValue_init(d, items)
    /\ last' = [op |-> "StructValue", d |-> d, args |-> items, out |-> <<>>]
    /\ UNCHANGED <<dicts, desc, block_name>>

SetItem(name, v) ==
    /\ Ready
    /\ sv.block # 0
    /\ sv' = [sv EXCEPT !.items = od_setitem(sv.items, name, v)]
    /\ last' = [op |-> "setitem", d |-> sv.block, args |-> <<name, v>>, out |-> <<>>]
    /\ UNCHANGED <<dicts, desc, block_name>>

DelItem(name) ==
    /\ Ready
    /\ sv.block # 0
    /\ od_has(sv.items, name)
    /\ sv' = [sv EXCEPT !.items = od_delitem(sv.items, name)]
    /\ last' = [op |-> "delitem", d |-> sv.block, args |-> <<name>>, out |-> <<>>]
    /\ UNCHANGED <<dicts, desc, block_name>>

\* a call of a mapping method StructValue inherits from OrderedDict, which
\* leaves the entries items
Mutate(op, items) ==
    /\ Ready
    /\ sv.block # 0
    /\ sv' = [sv EXCEPT !.items = items]
    /\ last' = [op |-> op, d |-> sv.block, args |-> <<>>, out |-> <<>>]
    /\ UNCHANGED <<dicts, desc, block_name>>

Update(pairs) == Mutate("update", od_update(sv.items, pairs))

\* move_to_end, popitem and pop raise KeyError, and leave the entries as they
\* are, when the key is missing or the mapping is empty
MoveToEnd(name, to_last) ==
    /\ od_has(sv.items, name)
    /\ Mutate("move_to_end", od_move_to_end(sv.items, name, to_last))

PopItem(to_last) ==
    /\ sv.items # <<>>
    /\ Mutate("popitem", od_popitem(sv.items, to_last))

Pop(name) ==
    /\ od_has(sv.items, name)
    /\ Mutate("pop", od_delitem(sv.items, name))

SetDefault(name, v) == Mutate("setdefault", od_setdefault(sv.items, name, v))

Clear == Mutate("clear", <<>>)

BoundBlocks ==
    /\ Ready
    /\ sv.block # 0
    /\ LET r == cached_property_get(sv, Self(sv.block).child_blocks)
       IN /\ sv' = r.inst
          /\ last' = [op |-> "bound_blocks", d |-> sv.block, args |-> sv.items,
                      out |-> r.ret]
    /\ UNCHANGED <<dicts, desc, block_name>>

\* StructValue(block, items).bound_blocks : the first access on a new instance
BoundBlocksOfNew(d, items) ==
    Call("bound_blocks", d, od_from_pairs(items),
         cached_property_get(StructValue_init(d, items), Self(d).child_blocks).ret)

\* to_python(get_prep_value(to_python(value))), call by call
RoundTrip(d, value) ==
    LET py == to_python(Self(d), value)
    IN \E prep \in get_prep_value(Self(d), py) :
          Call("round_trip", d, value,
               [py |-> py, prep |-> prep, again |-> to_python(Self(d), prep.ret)])

\* the caller takes the outcome of the call and goes on
Return ==
    /\ ~ Ready
    /\ last' = [op |-> "idle", d |-> 0, args |-> <<>>, out |-> <<>>]
    /\ UNCHANGED <<dicts, desc, block_name, sv>>

\* ----------------------------------------------------------- specifications

\* one descriptor and every operation on it
DoConstruct == Ready /\ \E lb \in LocalLists, label \in Labels : Construct(1, lb, label)

DoRenderForm ==
    Ready /\ \E v \in RawValues, p \in Prefixes, e \in ErrorLists : RenderForm(1, v, p, e)

DoValueFromDatadict == Ready /\ \E data \in DataDicts, p \in Prefixes : ValueFromDatadict(1, data, p)

DoClean == Ready /\ \E v \in RawValues : Clean(1, v)

DoToPython == Ready /\ \E v \in RawValues : ToPython(1, v)

DoGetPrepValue == Ready /\ \E v \in PyValues : GetPrepValue(1, v)

DoGetSearchableContent == Ready /\ \E v \in PyValues : GetSearchableContent(1, v)

DoBoundBlocks == Ready /\ \E items \in PyValues : BoundBlocksOfNew(1, items)

DoRoundTrip == Ready /\ \E v \in RawValues : RoundTrip(1, v)

Next ==
    \/ DoConstruct
    \/ DoRenderForm
    \/ DoValueFromDatadict
    \/ DoClean
    \/ DoToPython
    \/ DoGetPrepValue
    \/ DoGetSearchableContent
    \/ DoBoundBlocks
    \/ DoRoundTrip
    \/ Deconstruct(1)
    \/ JsInitializer(1)
    \/ Return

Spec == Init /\ [][Next]_vars

\* sample values: one out of declaration order, one with only the name c
FrameRaw == {<< <<"b", 1>>, <<"a", 0>> >>, << <<"c", 1>> >>}

FramePy == {<< <<"b", 11>>, <<"a", 10>> >>, << <<"c", 11>> >>}

\* one descriptor and one struct value instance of it, read and updated
DoNewStructValue == Ready /\ \E items \in {<<>>} \cup FramePy : NewStructValue(1, items)

DoSetItem == Ready /\ \E name \in Names, v \in PyVals : SetItem(name, v)

DoDelItem == Ready /\ \E name \in Names : DelItem(name)

\* update is called with two entries at once
DoUpdate == Ready /\ \E pairs \in {v \in PyValues : Len(v) = 2} : Update(pairs)

DoMoveToEnd == Ready /\ \E name \in Names, to_last \in BOOLEAN : MoveToEnd(name, to_last)

DoPopItem == Ready /\ \E to_last \in BOOLEAN : PopItem(to_last)

DoPop == Ready /\ \E name \in Names : Pop(name)

DoSetDefault == Ready /\ \E name \in Names, v \in PyVals : SetDefault(name, v)

ValueConstruct == Ready /\ \E lb \in LocalLists : Construct(1, lb, "")

NextValue ==
    \/ ValueConstruct
    \/ DoNewStructValue
    \/ DoSetItem
    \/ DoDelItem
    \/ DoUpdate
    \/ DoMoveToEnd
    \/ DoPopItem
    \/ DoPop
    \/ DoSetDefault
    \/ Clear
    \/ BoundBlocks
    \/ Return

SpecValue == Init /\ [][NextValue]_vars

\* two descriptors of one type, every operation called on either
FrameErrorLists ==
    {[i \in 1..n |-> AggregatedError(ErrParams(<<"a">>))] : n \in {0, 1, 2}}

FrameConstruct == Ready /\ \E d \in Descs, lb \in LocalLists : Construct(d, lb, "")

FrameRenderForm ==
    Ready /\ \E d \in Descs, v \in FrameRaw, e \in FrameErrorLists : RenderForm(d, v, "p", e)

FrameValueFromDatadict ==
    Ready /\ \E d \in Descs : ValueFromDatadict(d, [k \in {"p-a"} |-> 1], "p")

FrameClean == Ready /\ \E d \in Descs, v \in FrameRaw : Clean(d, v)

FrameToPython == Ready /\ \E d \in Descs, v \in FrameRaw : ToPython(d, v)

FrameGetPrepValue == Ready /\ \E d \in Descs, v \in FramePy : GetPrepValue(d, v)

FrameGetSearchableContent ==
    Ready /\ \E d \in Descs, v \in FramePy : GetSearchableContent(d, v)

FrameDeconstruct == \E d \in Descs : Deconstruct(d)

FrameJsInitializer == \E d \in Descs : JsInitializer(d)

FrameNewStructValue == Ready /\ \E d \in Descs, items \in FramePy : NewStructValue(d, items)

NextFrame ==
    \/ FrameConstruct
    \/ FrameRenderForm
    \/ FrameValueFromDatadict
    \/ FrameClean
    \/ FrameToPython
    \/ FrameGetPrepValue
    \/ FrameGetSearchableContent
    \/ FrameDeconstruct
    \/ FrameJsInitializer
    \/ FrameNewStructValue
    \/ BoundBlocks
    \/ Return

SpecFrame == Init /\ [][NextFrame]_vars

\* ------------------------------------------------------------------ claims

\* the child_blocks mapping of descriptor d, and its names in declaration order
CB(d) == dicts[desc[d].child_blocks]

Decl(d) == od_keys(CB(d))

\* position of name n in the declaration order of descriptor d
DeclPos(d, n) == od_index(CB(d), n)

\* the names of ks are declared on d and appear in ks in declaration order
InDeclOrder(d, ks) ==
    /\ \A i \in 1..Len(ks) : od_has(CB(d), ks[i])
    /\ \A i, j \in 1..Len(ks) : i < j => DeclPos(d, ks[i]) < DeclPos(d, ks[j])

\* the names of the items of v whose child clean refuses the value
Failed(d, v) ==
    {n \in od_keyset(v) : ~ ChildClean(od_getitem(CB(d), n), od_getitem(v, n)).ok}

\* C1: clean calls the child clean of every entry of the struct value, in
\* order, also after an earlier entry has failed; it fails exactly when some
\* child fails, and then with one ValidationError whose params has exactly the
\* failed names as keys, each mapped to the error list of that child's error.
C1_CleanAggregates ==
    (last.op = "clean" /\ od_keyset(last.args) \subseteq od_keyset(CB(last.d))) =>
        LET v == last.args
            failed == Failed(last.d, v)
        IN /\ last.out.attempted = od_keys(v)
           /\ (last.out.exc # "none") <=> (failed # {})
           /\ failed # {} =>
                 /\ last.out.exc = "ValidationError"
                 /\ od_keyset(last.out.params) = failed
                 /\ \A n \in failed :
                       od_getitem(last.out.params, n)
                           = <<ChildError(od_getitem(CB(last.d), n), od_getitem(v, n))>>
           /\ failed = {} => od_keyset(last.out.ret) = od_keyset(v)

\* a struct value with every declared field, whose first field fails and a
\* later one passes: the later one was still cleaned and is not in the payload
C1_Witness ==
    /\ last.op = "clean"
    /\ od_keys(last.args) = Decl(last.d)
    /\ Len(last.args) >= 2
    /\ last.args[1][1] \in Failed(last.d, last.args)
    /\ last.args[2][1] \notin Failed(last.d, last.args)
    /\ last.out.attempted = od_keys(last.args)
    /\ od_keyset(last.out.params) = {last.args[1][1]}

\* the block of the last pair of local_blocks that has name n
LastLocal(lb, n) == lb[CHOOSE i \in 1..Len(lb) :
                          /\ lb[i][1] = n
                          /\ \A j \in (i + 1)..Len(lb) : lb[j][1] # n][2]

\* the names of local_blocks that are not names of base, each once, in
\* argument order
RECURSIVE NewNames(_, _)
NewNames(lb, base) ==
    IF lb = <<>> THEN <<>>
    ELSE LET front == NewNames(SubSeq(lb, 1, Len(lb) - 1), base)
             n == lb[Len(lb)][1]
         IN IF od_has(base, n) \/ \E i \in 1..Len(front) : front[i] = n
            THEN front
            ELSE Append(front, n)

\* C2: after construction every base name is at its base position, mapped to
\* the supplemental definition given for it if there is one and to the base
\* definition otherwise; the supplemental names that are not base names follow
\* all base names, in argument order.
C2_SupplementKeepsPosition ==
    last.op = "init" =>
        LET lb == last.args
            base == dicts[BaseRef]
            cb == CB(last.d)
        IN /\ od_keys(cb) = od_keys(base) \o NewNames(lb, base)
           /\ \A i \in 1..Len(cb) :
                 cb[i][2] = IF od_has(lb, cb[i][1])
                            THEN LastLocal(lb, cb[i][1])
                            ELSE base[i][2]

\* local_blocks gives a new name first and then redefines the first base name
C2_Witness ==
    /\ last.op = "init"
    /\ Len(dicts[BaseRef]) = 2
    /\ od_keys(last.args) = <<"c", "a">>
    /\ CB(last.d) = << <<"a", LocalBlock(2)>>, <<"b", 2>>, <<"c", LocalBlock(1)>> >>

\* the entries of the four operations that walk child_blocks are in
\* declaration order
WalksInDeclOrder ==
    /\ last.op \in {"value_from_datadict", "to_python", "bound_blocks"} =>
          od_keys(last.out) = Decl(last.d)
    /\ last.op = "get_searchable_content" =>
          /\ \A i, j \in 1..Len(last.out) :
                i < j => \E k, l \in 1..Len(CB(last.d)) :
                            /\ k <= l
                            /\ CB(last.d)[k][2] = last.out[i][1]
                            /\ CB(last.d)[l][2] = last.out[j][1]
          /\ {last.out[i][1] : i \in 1..Len(last.out)} = {b : b \in Range(od_values(CB(last.d)))}

\* C3 as stated: the entries of value_from_datadict, to_python, get_prep_value,
\* get_searchable_content and bound_blocks are all in declaration order,
\* whatever the key order of the input value.
C3_AllInDeclOrder ==
    /\ WalksInDeclOrder
    /\ (last.op = "get_prep_value" /\ last.out.exc = "none") =>
          InDeclOrder(last.d, od_keys(last.out.ret))

\* C4: for every stored input v, also one that omits declared fields or has
\* other keys, to_python(get_prep_value(to_python(v))) = to_python(v); the
\* child to_python and get_prep_value used here satisfy the same round trip.
C4_RoundTrip ==
    last.op = "round_trip" =>
        /\ last.out.prep.exc = "none"
        /\ last.out.again = last.out.py

\* the input omits a declared field, so the first to_python fills in a default
C4_Witness ==
    /\ last.op = "round_trip"
    /\ Len(CB(last.d)) >= 2
    /\ \E n \in od_keyset(CB(last.d)) : ~ od_has(last.args, n)
    /\ \E n \in od_keyset(CB(last.d)) : od_has(last.args, n)
    /\ last.out.again = last.out.py
    /\ od_keyset(last.out.prep.ret) = od_keyset(CB(last.d))
    /\ od_keys(last.out.prep.ret) # Decl(last.d)

\* C5: render_form given more than one top-level error raises TypeError, calls
\* no child render_form and returns nothing; given no error or one error it
\* raises nothing and renders every child.
C5_MultipleErrorsRejected ==
    last.op = "render_form" =>
        /\ Len(last.args.errors) > 1 =>
              /\ last.out.exc = "TypeError"
              /\ last.out.calls = <<>>
              /\ last.out.ret = <<>>
        /\ Len(last.args.errors) <= 1 =>
              /\ last.out.exc = "none"
              /\ Len(last.out.calls) = Len(CB(last.d))
              /\ Len(last.out.ret) = 1

\* two separate error objects were given to a descriptor that has children
C5_Witness ==
    /\ last.op = "render_form"
    /\ Len(last.args.errors) = 2
    /\ last.args.errors[1] # last.args.errors[2]
    /\ Len(CB(last.d)) >= 2
    /\ last.out.exc = "TypeError"

\* C6: render_form given one aggregated error calls the render_form of each
\* declared child once, in declaration order, with prefix "<prefix>-<name>" and
\* with the payload's entry for that child's name as errors, or no errors when
\* the payload has none for it; the prefixes of distinct children differ.
C6_ErrorsDistributed ==
    (last.op = "render_form" /\ Len(last.args.errors) = 1) =>
        LET cb == CB(last.d)
            calls == last.out.calls
            payload == last.args.errors[1].params
        IN /\ Len(calls) = Len(cb)
           /\ \A i \in 1..Len(cb) :
                 /\ calls[i].block = cb[i][2]
                 /\ calls[i].prefix = last.args.prefix \o "-" \o cb[i][1]
                 /\ calls[i].errors.some <=> od_has(payload, cb[i][1])
                 /\ od_has(payload, cb[i][1]) =>
                       calls[i].errors.list = od_getitem(payload, cb[i][1])
           /\ \A i, j \in 1..Len(cb) : i # j => calls[i].prefix # calls[j].prefix

\* a payload with two entries, for two of three declared children: each of the
\* two gets its own error list and the third gets none
C6_Witness ==
    /\ last.op = "render_form"
    /\ Len(last.args.errors) = 1
    /\ Len(last.args.errors[1].params) = 2
    /\ Len(CB(last.d)) = 3
    /\ Cardinality({i \in 1..3 : last.out.calls[i].errors.some}) = 2
    /\ \A i, j \in 1..3 :
          (i # j /\ last.out.calls[i].errors.some /\ last.out.calls[j].errors.some)
              => last.out.calls[i].errors.list # last.out.calls[j].errors.list

\* C7 as stated: bound_blocks has one entry per declared field, pairing the
\* field definition with the struct value's entry for that name, or with the
\* field definition's default when the struct value has no entry for it.
C7_BoundToValueOrDefault ==
    last.op = "bound_blocks" =>
        /\ od_keys(last.out) = Decl(last.d)
        /\ \A i \in 1..Len(last.out) :
              LET name == CB(last.d)[i][1]
                  block == CB(last.d)[i][2]
              IN last.out[i][2] = Bind(block, od_get(last.args, name, MetaDefault(block)))

\* C8: to_python returns one entry per declared field: the child's to_python
\* of the input's entry for the name when the input has one, and of the field
\* definition's default otherwise; other keys of the input are not in it.
C8_ToPythonDefaults ==
    last.op = "to_python" =>
        /\ od_keys(last.out) = Decl(last.d)
        /\ \A i \in 1..Len(last.out) :
              LET name == CB(last.d)[i][1]
                  block == CB(last.d)[i][2]
              IN last.out[i][2] =
                    IF od_has(last.args, name)
                    THEN ChildToPython(block, od_getitem(last.args, name))
                    ELSE ChildToPython(block, MetaDefault(block))

\* the input omits a declared field whose default is not what None converts
\* to, and has a key that is no declared field
C8_Witness ==
    /\ last.op = "to_python"
    /\ \E i \in 1..Len(CB(last.d)) :
          /\ ~ od_has(last.args, CB(last.d)[i][1])
          /\ last.out[i][2] = ChildToPython(CB(last.d)[i][2], MetaDefault(CB(last.d)[i][2]))
    /\ \E n \in od_keyset(last.args) : ~ od_has(last.out, n)
    /\ \E n \in od_keyset(last.args) : od_has(last.out, n)

\* the calls that update the entries of a struct value
SvUpdates ==
    {"setitem", "delitem", "update", "move_to_end", "popitem", "pop", "setdefault", "clear"}

\* C9: on one struct value instance the body of bound_blocks runs at most
\* once: the first access builds the view from the entries of that moment and
\* stores it, every later access returns the stored view without running the
\* body again, and updates of the entries leave the stored view as it is.
C9_BoundBlocksComputedOnce ==
    /\ [](sv.computes <= 1)
    /\ [][/\ last'.op = "bound_blocks" =>
                IF sv.cached
                THEN sv' = sv /\ last'.out = sv.cache
                ELSE /\ sv'.cached
                     /\ sv'.computes = 1
                     /\ sv'.cache = bound_blocks(sv, CB(sv.block))
                     /\ last'.out = sv'.cache
          /\ (sv.cached /\ last'.op \in SvUpdates \cup {"bound_blocks", "idle"}) =>
                /\ sv'.cached
                /\ sv'.cache = sv.cache
                /\ sv'.computes = sv.computes]_vars

\* an access after an update returned the view built before the update
C9_Witness ==
    /\ last.op = "bound_blocks"
    /\ sv.cached
    /\ sv.computes = 1
    /\ last.out = sv.cache
    /\ sv.cache # bound_blocks(sv, CB(sv.block))

\* C10: no step changes the type-level base_blocks, and no step changes a
\* constructed descriptor or its child_blocks mapping: not the construction of
\* another descriptor, not an operation that returns, not one that fails.
C10_DescriptorsReadOnly ==
    [][/\ dicts'[BaseRef] = dicts[BaseRef]
       /\ \A d \in Descs :
             desc[d].constructed =>
                /\ desc'[d] = desc[d]
                /\ dicts'[desc[d].child_blocks] = dicts[desc[d].child_blocks]]_vars

\* two descriptors of a type with base fields, constructed with different
\* supplemental fields, after a call on one of them has failed
C10_Witness ==
    /\ desc[1].constructed /\ desc[2].constructed
    /\ dicts[BaseRef] = << <<"a", 1>>, <<"b", 2>> >>
    /\ Len(CB(1)) = 3 /\ Len(CB(2)) = 2
    /\ CB(2) # dicts[BaseRef]
    /\ desc[1].child_blocks # desc[2].child_blocks
    /\ last.op = "clean" /\ last.out.exc = "KeyError"

====
